---- MODULE Spec2Model ----
(***************************************************************************)
(* Model of the dictation client (src/dictation_gui.py) and the dictation  *)
(* daemon (src/dictation_server.py).                                        *)
(*                                                                          *)
(* The client runs four activities: the GTK main loop (key handlers, idle   *)
(* callbacks, timeouts), the worker thread (worker_init followed by the     *)
(* writer loop stream_audio_to_daemon), the reader thread                   *)
(* (read_daemon_messages) and the PortAudio capture callback                *)
(* (audio_callback).  The daemon is one accept loop handling one            *)
(* connection at a time.  The two sides share one Unix stream connection.   *)
(*                                                                          *)
(* Spec         : one client session against the daemon.  A captured frame  *)
(*                stands for its resampled block of FrameSamples samples.   *)
(* DaemonSpec   : the daemon alone, serving arbitrary peers.                *)
(* DecodeSpec   : the reader alone, on any stream of control lines.         *)
(* ResampleSpec : the capture callback alone, sample by sample.             *)
(***************************************************************************)
EXTENDS Integers, Sequences, FiniteSets, TLC

\* ------------------------------------------------------------------ bounds
\* Frames the capture callback may enqueue in one session.
MaxFrames == 2
\* Samples in one captured (resampled) frame.
FrameSamples == 1
\* Longest text the transcription engine returns.
MaxTextLen == 1
\* Connections a peer may open in DaemonSpec.
MaxConns == 2
\* Bytes a peer may send on one connection in DaemonSpec.
MaxPeerBytes == 5
\* Lines of a control stream in DecodeSpec.
MaxLines == 2
\* Largest duration, in tenths of a second, of an L line in DecodeSpec.
MaxTenths == 1
\* Samples of the longest block delivered to the capture callback in ResampleSpec.
MaxBlock == 20

\* --------------------------------------------------------------- constants
WHISPER_RATE == 16000
SampleBytes == 4

\* Characters the engine's text is made of (never a line break: a line of the
\* control channel ends at the first one).
TextChars == {"a"}
NL == "\n"

RECURSIVE SeqsUpTo(_, _)
SeqsUpTo(S, n) ==
    IF n = 0 THEN {<< >>}
    ELSE LET shorter == SeqsUpTo(S, n - 1)
         IN  shorter \cup {Append(s, c) : s \in {t \in shorter : Len(t) = n - 1}, c \in S}

\* What " ".join(seg.text.strip() ...) can yield.
Texts == SeqsUpTo(TextChars, MaxTextLen)

DigitChars == <<"0", "1", "2", "3", "4", "5", "6", "7", "8", "9">>
DigitChar(d) == DigitChars[d + 1]
IsDigit(c) == \E d \in 0..9 : DigitChars[d + 1] = c
DigitVal(c) == CHOOSE d \in 0..9 : DigitChars[d + 1] = c

RECURSIVE Digits(_)
Digits(n) == IF n < 10 THEN <<DigitChar(n)>> ELSE Append(Digits(n \div 10), DigitChar(n % 10))

\* f"{x:.1f}" of x = num / den seconds: tenths rounded half to even.
Tenths(num, den) ==
    LET q == (num * 10) \div den
        r == (num * 10) % den
    IN  IF 2 * r > den \/ (2 * r = den /\ q % 2 = 1) THEN q + 1 ELSE q

FormatTenths(t) == Digits(t \div 10) \o <<".", DigitChar(t % 10)>>

\* ------------------------------------------------------------------- state
VARIABLES
    \* GTK main loop and DictationWindow fields
    uipc, idleq, quitTimer, label,
    recording, cancelled, timer_id, stop_event, streamRef, sock, final_text,
    bt_card, bt_original_profile, wp_autoswitch_disabled,
    \* worker thread (worker_init, then stream_audio_to_daemon)
    wpc, hfp, chunk,
    \* reader thread (read_daemon_messages)
    rpc, buf,
    \* capture (sounddevice stream and audio_queue)
    streamState, audio_queue, captured,
    \* audio_callback: the device rate, the block delivered, the block enqueued
    capture_rate, indata, mono,
    \* audio card registry and auto-switch agent (pactl / wpctl)
    cardPresent, cardProfile, hfpAvail, autoswitch,
    \* clipboard and paste collaborator
    clipboard, pasted,
    \* the connection: client-to-daemon bytes, daemon-to-client characters (those
    \* in flight, and all that were written)
    conn, c2d, c2dEnd, d2c, d2cEnd, d2cAll,
    \* daemon (main, handle_connection) and the listen queue of its socket
    dpc, audio_buf, byte_buf, text, logRows, connCount, backlog,
    \* connections accepted and not closed yet
    inProgress,
    \* history of the current connection, as the daemon saw it
    eofSeen, engineCalls, bytesRecvd, sentMsgs,
    \* connections on which the engine raised, over the daemon's life
    raises,
    \* history of the client session
    restoreCalls, btCmds, cancelReq, recAtCancel, queueAtCancel, sentFrames,
    shutCount, cancelAtShut, sendFailed, captureStarted, linesAfterCancel,
    rlines, errShown, exitVia, recStarted

uiVars == <<uipc, idleq, quitTimer, label, recording, cancelled,
            timer_id, stop_event, streamRef, sock, final_text, bt_card,
            bt_original_profile, wp_autoswitch_disabled>>
workerVars == <<wpc, hfp, chunk>>
readerVars == <<rpc, buf>>
captureVars == <<streamState, audio_queue, captured, capture_rate, indata, mono>>
btVars == <<cardPresent, cardProfile, hfpAvail, autoswitch>>
outVars == <<clipboard, pasted>>
connVars == <<conn, c2d, c2dEnd, d2c, d2cAll, d2cEnd>>
daemonVars == <<dpc, audio_buf, byte_buf, text, logRows, inProgress, connCount, backlog>>
daemonHist == <<eofSeen, engineCalls, raises, bytesRecvd, sentMsgs>>
clientHist == <<restoreCalls, btCmds, cancelReq, recAtCancel, queueAtCancel,
                sentFrames, shutCount, cancelAtShut, sendFailed, captureStarted,
                linesAfterCancel, rlines, errShown, exitVia, recStarted>>
clientVars == <<uiVars, workerVars, readerVars, captureVars, btVars, outVars,
                clientHist>>
vars == <<clientVars, connVars, daemonVars, daemonHist>>

\* ================================================================== daemon

\* send_message: the line "<type> <text>\n" is appended to the control stream;
\* BrokenPipeError / ConnectionResetError (the peer has closed) is swallowed.
MessageLine(msg_type, payload) == <<msg_type, " ">> \o payload \o <<NL>>

send_message(msg_type, payload) ==
    /\ d2c' = IF c2dEnd \in {"open", "eof"}
              THEN d2c \o MessageLine(msg_type, payload)
              ELSE d2c
    /\ d2cAll' = IF c2dEnd \in {"open", "eof"}
                 THEN d2cAll \o MessageLine(msg_type, payload)
                 ELSE d2cAll
    /\ sentMsgs' = Append(sentMsgs, msg_type)

\* A server that hands every connection to a handler of its own: a connection
\* waiting in the listen queue is accepted while another is being handled.
DAcceptWhileHandling ==
    /\ dpc # "dead"
    /\ \/ /\ dpc = "accept"
          /\ conn = "pending"
          /\ conn' = "accepted"
          /\ dpc' = "recv"
          /\ audio_buf' = << >>
          /\ byte_buf' = << >>
          /\ text' = << >>
          /\ eofSeen' = FALSE
          /\ engineCalls' = 0
          /\ bytesRecvd' = 0
          /\ sentMsgs' = << >>
          /\ UNCHANGED backlog
       \/ /\ conn = "accepted"
          /\ backlog > 0
          /\ backlog' = backlog - 1
          /\ UNCHANGED <<conn, dpc, audio_buf, byte_buf, text, eofSeen, engineCalls,
                         bytesRecvd, sentMsgs>>
    /\ inProgress' = inProgress + 1
    /\ UNCHANGED <<c2d, c2dEnd, d2c, d2cAll, d2cEnd, logRows, connCount, raises,
                   clientVars>>

\* main: conn, _ = server.accept(); handle_connection starts with empty buffers.
DAccept ==
    /\ dpc = "accept"
    /\ conn = "pending"
    /\ conn' = "accepted"
    /\ inProgress' = inProgress + 1
    /\ dpc' = "recv"
    /\ audio_buf' = << >>
    /\ byte_buf' = << >>
    /\ text' = << >>
    /\ eofSeen' = FALSE
    /\ engineCalls' = 0
    /\ bytesRecvd' = 0
    /\ sentMsgs' = << >>
    /\ UNCHANGED <<c2d, c2dEnd, d2c, d2cAll, d2cEnd, logRows, connCount, backlog,
                   raises, clientVars>>

\* The n bytes of the connection's stream that follow its first `from` bytes:
\* a byte is named by its position in the stream.
StreamBytes(from, n) == [i \in 1..n |-> from + i]

\* np.frombuffer(b, dtype=np.float32): one sample for every 4 bytes, in order.
frombuffer(b) ==
    [k \in 1..(Len(b) \div SampleBytes) |->
        SubSeq(b, SampleBytes * (k - 1) + 1, SampleBytes * k)]

\* The read loop keeping the whole samples of each read by itself: the bytes of
\* a partial sample are not carried to the next read.
DRecvDataNoCarry ==
    /\ dpc = "recv"
    /\ c2d > 0
    /\ \E n \in 1..c2d :
        LET data == StreamBytes(bytesRecvd, n)
            n_complete == (Len(data) \div SampleBytes) * SampleBytes
        IN  /\ c2d' = c2d - n
            /\ bytesRecvd' = bytesRecvd + n
            /\ audio_buf' = audio_buf \o frombuffer(SubSeq(data, 1, n_complete))
            /\ byte_buf' = SubSeq(data, n_complete + 1, Len(data))
    /\ UNCHANGED <<conn, c2dEnd, d2c, d2cAll, d2cEnd, dpc, text, logRows, inProgress,
                   connCount, backlog, eofSeen, engineCalls, raises, sentMsgs,
                   clientVars>>

\* One pass of the read loop with data, lines 61-73: recv returns n of the bytes
\* in flight, byte_buf += data, the whole samples move from byte_buf to audio_buf.
DRecvData ==
    /\ dpc = "recv"
    /\ c2d > 0
    /\ \E n \in 1..c2d :
        LET data == StreamBytes(bytesRecvd, n)
            joined == byte_buf \o data
            n_complete == (Len(joined) \div SampleBytes) * SampleBytes
        IN  /\ c2d' = c2d - n
            /\ bytesRecvd' = bytesRecvd + n
            /\ audio_buf' = audio_buf \o frombuffer(SubSeq(joined, 1, n_complete))
            /\ byte_buf' = SubSeq(joined, n_complete + 1, Len(joined))
    /\ UNCHANGED <<conn, c2dEnd, d2c, d2cAll, d2cEnd, dpc, text, logRows, inProgress, connCount, backlog,
                   eofSeen, engineCalls, raises, sentMsgs, clientVars>>

\* recv returns b"": end of input, the loop is left.
DRecvEOF ==
    /\ dpc = "recv"
    /\ c2d = 0
    /\ c2dEnd \in {"eof", "closed"}
    /\ eofSeen' = TRUE
    /\ dpc' = "check"
    /\ UNCHANGED <<connVars, audio_buf, byte_buf, text, logRows, inProgress, connCount, backlog,
                   engineCalls, raises, bytesRecvd, sentMsgs, clientVars>>

\* recv raises ConnectionResetError / BrokenPipeError: the loop is left too.
DRecvError ==
    /\ dpc = "recv"
    /\ c2d = 0
    /\ c2dEnd = "reset"
    /\ dpc' = "check"
    /\ UNCHANGED <<connVars, audio_buf, byte_buf, text, logRows, inProgress, connCount, backlog,
                   daemonHist, clientVars>>

\* Lines 75-80 without the test of line 75.
DSendProgressNoCheck ==
    /\ dpc = "check"
    /\ send_message("L", FormatTenths(Tenths(Len(audio_buf), WHISPER_RATE)))
    /\ dpc' = "transcribe"
    /\ UNCHANGED <<conn, c2d, c2dEnd, d2cEnd, audio_buf, byte_buf, text, logRows, inProgress,
                   connCount, backlog, eofSeen, engineCalls, raises, bytesRecvd, clientVars>>

\* After the loop, lines 75-80: return when no sample arrived, else send
\* L <duration>.
DSendProgress ==
    /\ dpc = "check"
    /\ IF Len(audio_buf) = 0
       THEN /\ dpc' = "close"
            /\ UNCHANGED <<d2c, d2cAll, sentMsgs>>
       ELSE /\ send_message("L", FormatTenths(Tenths(Len(audio_buf), WHISPER_RATE)))
            /\ dpc' = "transcribe"
    /\ UNCHANGED <<conn, c2d, c2dEnd, d2cEnd, audio_buf, byte_buf, text, logRows, inProgress,
                   connCount, backlog, eofSeen, engineCalls, raises, bytesRecvd, clientVars>>

\* model.transcribe and the join of its segments: the engine returns any text.
DTranscribe ==
    /\ dpc = "transcribe"
    /\ engineCalls' = engineCalls + 1
    /\ \E t \in Texts : text' = t
    /\ dpc' = "result"
    /\ UNCHANGED <<connVars, audio_buf, byte_buf, logRows, inProgress, connCount,
                   backlog, eofSeen, raises, bytesRecvd, sentMsgs, clientVars>>

\* The accept loop without the except clause of lines 121-122 around the loop
\* body: the engine's exception leaves main and ends the daemon.
DTranscribeRaiseFatal ==
    /\ dpc = "transcribe"
    /\ engineCalls' = engineCalls + 1
    /\ raises' = raises + 1
    /\ dpc' = "dead"
    /\ conn' = "closed"
    /\ inProgress' = 0
    /\ d2cEnd' = IF c2d > 0 THEN "reset" ELSE "eof"
    /\ UNCHANGED <<c2d, c2dEnd, d2c, d2cAll, audio_buf, byte_buf, text, logRows,
                   connCount, backlog, eofSeen, bytesRecvd, sentMsgs, clientVars>>

\* The engine raises: handle_connection is left through main's except clause.
DTranscribeRaise ==
    /\ dpc = "transcribe"
    /\ engineCalls' = engineCalls + 1
    /\ raises' = raises + 1
    /\ dpc' = "close"
    /\ UNCHANGED <<connVars, audio_buf, byte_buf, text, logRows, inProgress, connCount,
                   backlog, eofSeen, bytesRecvd, sentMsgs, clientVars>>

\* The result followed by a second report of the duration.
DSendResultThenProgress ==
    /\ dpc = "result"
    /\ IF text # << >>
       THEN LET lines == MessageLine("F", text)
                         \o MessageLine("L", FormatTenths(Tenths(Len(audio_buf), WHISPER_RATE)))
            IN  /\ d2c' = IF c2dEnd \in {"open", "eof"} THEN d2c \o lines ELSE d2c
                /\ d2cAll' = IF c2dEnd \in {"open", "eof"} THEN d2cAll \o lines
                             ELSE d2cAll
                /\ sentMsgs' = sentMsgs \o <<"F", "L">>
       ELSE UNCHANGED <<d2c, d2cAll, sentMsgs>>
    /\ dpc' = "log"
    /\ UNCHANGED <<conn, c2d, c2dEnd, d2cEnd, audio_buf, byte_buf, text, logRows,
                   inProgress, connCount, backlog, eofSeen, engineCalls, raises,
                   bytesRecvd, clientVars>>

\* if text: send_message(conn, "F", text)
DSendResult ==
    /\ dpc = "result"
    /\ IF text # << >>
       THEN send_message("F", text)
       ELSE UNCHANGED <<d2c, d2cAll, sentMsgs>>
    /\ dpc' = "log"
    /\ UNCHANGED <<conn, c2d, c2dEnd, d2cEnd, audio_buf, byte_buf, text, logRows, inProgress,
                   connCount, backlog, eofSeen, engineCalls, raises, bytesRecvd, clientVars>>

\* log_timing appends one row.
DLogTiming ==
    /\ dpc = "log"
    /\ logRows' = logRows + 1
    /\ dpc' = "close"
    /\ UNCHANGED <<connVars, audio_buf, byte_buf, text, inProgress, connCount, backlog,
                   daemonHist, clientVars>>

\* main's finally: conn.close(), then back to accept.  Unread input makes the
\* peer's next read fail with a reset instead of ending.
DClose ==
    /\ dpc = "close"
    /\ conn' = "closed"
    /\ d2cEnd' = IF c2d > 0 THEN "reset" ELSE "eof"
    /\ dpc' = "accept"
    /\ inProgress' = inProgress - 1
    /\ UNCHANGED <<c2d, c2dEnd, d2c, d2cAll, audio_buf, byte_buf, text, logRows,
                   connCount, backlog, daemonHist, clientVars>>

\* KeyboardInterrupt (or the process is killed) while a connection is open: the
\* daemon ends and the kernel closes its sockets.  (A daemon that ends with no
\* connection open is the daemon that is not running when the client connects.)
DShutdown ==
    /\ dpc # "dead"
    /\ conn \in {"pending", "accepted"}
    /\ dpc' = "dead"
    /\ conn' = "closed"
    /\ d2cEnd' = IF c2d > 0 THEN "reset" ELSE "eof"
    /\ inProgress' = 0
    /\ UNCHANGED <<c2d, c2dEnd, d2c, d2cAll, audio_buf, byte_buf, text, logRows,
                   connCount, backlog, daemonHist, clientVars>>

\* ------------------------------------------------- peers of DaemonSpec

\* A peer connects while the daemon is busy with a connection: server.listen(1)
\* keeps the new connection in the listen queue until accept is called again.
PeerWait ==
    /\ dpc # "dead"
    /\ conn \in {"pending", "accepted"}
    /\ connCount < MaxConns
    /\ connCount' = connCount + 1
    /\ backlog' = backlog + 1
    /\ UNCHANGED <<connVars, dpc, audio_buf, byte_buf, text, logRows, inProgress,
                   daemonHist, clientVars>>

\* The next connection for accept: the first of the listen queue, or that of a
\* peer connecting now.
PeerConnect ==
    /\ dpc # "dead"
    /\ conn \in {"none", "closed"}
    /\ IF backlog > 0
       THEN /\ backlog' = backlog - 1
            /\ UNCHANGED connCount
       ELSE /\ connCount < MaxConns
            /\ connCount' = connCount + 1
            /\ UNCHANGED backlog
    /\ conn' = "pending"
    /\ c2d' = 0
    /\ c2dEnd' = "open"
    /\ d2c' = << >>
    /\ d2cAll' = << >>
    /\ d2cEnd' = "open"
    /\ UNCHANGED <<dpc, audio_buf, byte_buf, text, logRows, inProgress, daemonHist,
                   clientVars>>

PeerSend ==
    /\ conn \in {"pending", "accepted"}
    /\ c2dEnd = "open"
    /\ \E n \in 1..MaxPeerBytes :
        /\ bytesRecvd + c2d + n <= MaxPeerBytes
        /\ c2d' = c2d + n
    /\ UNCHANGED <<conn, c2dEnd, d2c, d2cAll, d2cEnd, daemonVars, daemonHist, clientVars>>

\* shutdown(SHUT_WR)
PeerShutdown ==
    /\ conn \in {"pending", "accepted"}
    /\ c2dEnd = "open"
    /\ c2dEnd' = "eof"
    /\ UNCHANGED <<conn, c2d, d2c, d2cAll, d2cEnd, daemonVars, daemonHist, clientVars>>

\* The peer goes away without a half-close and the daemon's recv fails.
PeerReset ==
    /\ conn \in {"pending", "accepted"}
    /\ c2dEnd \in {"open", "eof"}
    /\ c2dEnd' = "reset"
    /\ UNCHANGED <<conn, c2d, d2c, d2cAll, d2cEnd, daemonVars, daemonHist, clientVars>>

DaemonNext ==
    \/ DAccept
    \/ DRecvData
    \/ DRecvEOF
    \/ DSendProgress
    \/ DTranscribe
    \/ DTranscribeRaise
    \/ DSendResult
    \/ DLogTiming
    \/ DClose
    \/ DShutdown

\* ================================================================== client

\* The client threads run until the process has exited.
Alive == uipc # "exited"

\* GLib.idle_add(callback, arg): callbacks run on the main loop in posting order.
Idle(cb, arg) == [cb |-> cb, arg |-> arg]

\* ------------------------------------------------- worker_init, lines 244-301

\* get_bt_card: the first bluez card of the registry and its active profile.
WGetBtCard ==
    /\ Alive /\ wpc = "get_bt_card"
    /\ bt_card' = cardPresent
    /\ bt_original_profile' = IF cardPresent THEN cardProfile ELSE "none"
    /\ wpc' = IF cardPresent THEN "find_hfp" ELSE "find_device"
    /\ UNCHANGED <<uipc, idleq, quitTimer, label, recording, cancelled,
                   timer_id, stop_event, streamRef, sock, final_text,
                   wp_autoswitch_disabled, hfp, chunk, readerVars, captureVars,
                   btVars, outVars, clientHist, connVars, daemonVars, daemonHist>>

\* find_hfp_profile: a headset profile of the card, or None.
WFindHfp ==
    /\ Alive /\ wpc = "find_hfp"
    /\ hfp' = IF hfpAvail THEN "hfp" ELSE "none"
    /\ wpc' = IF hfpAvail THEN "set_wp_autoswitch" ELSE "find_device"
    /\ UNCHANGED <<uiVars, chunk, readerVars, captureVars, btVars, outVars,
                   clientHist, connVars, daemonVars, daemonHist>>

\* set_wp_autoswitch(False), line 256.
WSetWpAutoswitch ==
    /\ Alive /\ wpc = "set_wp_autoswitch"
    /\ autoswitch' = FALSE
    /\ btCmds' = Append(btCmds, "autoswitch_off")
    /\ wpc' = "mark_disabled"
    /\ UNCHANGED <<recStarted, uiVars, hfp, chunk, readerVars, captureVars, cardPresent,
                   cardProfile, hfpAvail, outVars, restoreCalls, cancelReq,
                   recAtCancel, queueAtCancel, sentFrames, shutCount, cancelAtShut,
                   sendFailed, captureStarted, linesAfterCancel, rlines, errShown,
                   exitVia, connVars, daemonVars, daemonHist>>

\* self.wp_autoswitch_disabled = True, line 257.
WMarkDisabled ==
    /\ Alive /\ wpc = "mark_disabled"
    /\ wp_autoswitch_disabled' = TRUE
    /\ wpc' = "switch_profile"
    /\ UNCHANGED <<uipc, idleq, quitTimer, label, recording, cancelled,
                   timer_id, stop_event, streamRef, sock, final_text, bt_card,
                   bt_original_profile, hfp, chunk, readerVars, captureVars, btVars,
                   outVars, clientHist, connVars, daemonVars, daemonHist>>

\* Lines 258-260: switch the card when the headset profile is not the current one.
WSwitchProfile ==
    /\ Alive /\ wpc = "switch_profile"
    /\ IF bt_original_profile # "none" /\ hfp # bt_original_profile
       THEN /\ cardProfile' = hfp
            /\ btCmds' = Append(btCmds, "set_hfp")
       ELSE UNCHANGED <<cardProfile, btCmds>>
    /\ wpc' = "find_device"
    /\ UNCHANGED <<recStarted, uiVars, hfp, chunk, readerVars, captureVars, cardPresent,
                   hfpAvail, autoswitch, outVars, restoreCalls, cancelReq,
                   recAtCancel, queueAtCancel, sentFrames, shutCount, cancelAtShut,
                   sendFailed, captureStarted, linesAfterCancel, rlines, errShown,
                   exitVia, connVars, daemonVars, daemonHist>>

\* Lines 262-266: find_input_device returns a device or raises RuntimeError.
WFindDevice ==
    /\ Alive /\ wpc = "find_device"
    /\ \E found \in BOOLEAN :
        IF found
        THEN /\ wpc' = "open_stream"
             /\ UNCHANGED idleq
        ELSE /\ idleq' = Append(idleq, Idle("show_error", <<"No input devices found">>))
             /\ wpc' = "done"
    /\ UNCHANGED <<uipc, quitTimer, label, recording, cancelled,
                   timer_id, stop_event, streamRef, sock, final_text, bt_card,
                   bt_original_profile, wp_autoswitch_disabled, hfp, chunk,
                   readerVars, captureVars, btVars, outVars, clientHist, connVars,
                   daemonVars, daemonHist>>

\* Lines 268-284: open the input stream and start it; capture runs from here on.
WOpenStream ==
    /\ Alive /\ wpc = "open_stream"
    /\ \E ok \in BOOLEAN :
        IF ok
        THEN /\ streamRef' = TRUE
             /\ streamState' = "active"
             /\ captureStarted' = TRUE
             /\ wpc' = "socket"
             /\ UNCHANGED idleq
        ELSE /\ idleq' = Append(idleq, Idle("show_error", <<"Audio error">>))
             /\ wpc' = "done"
             /\ UNCHANGED <<streamRef, streamState, captureStarted>>
    /\ UNCHANGED <<recStarted, uipc, quitTimer, label, recording, cancelled,
                   timer_id, stop_event, sock, final_text, bt_card,
                   bt_original_profile, wp_autoswitch_disabled, hfp, chunk,
                   readerVars, audio_queue, captured, capture_rate, indata, mono, btVars, outVars, restoreCalls,
                   btCmds, cancelReq, recAtCancel, queueAtCancel, sentFrames,
                   shutCount, cancelAtShut, sendFailed, linesAfterCancel, rlines,
                   errShown, exitVia, connVars, daemonVars, daemonHist>>

\* self.sock = socket.socket(...), line 288.
WSocket ==
    /\ Alive /\ wpc = "socket"
    /\ sock' = "created"
    /\ wpc' = "connect"
    /\ UNCHANGED <<uipc, idleq, quitTimer, label, recording, cancelled,
                   timer_id, stop_event, streamRef, final_text, bt_card,
                   bt_original_profile, wp_autoswitch_disabled, hfp, chunk,
                   readerVars, captureVars, btVars, outVars, clientHist, connVars,
                   daemonVars, daemonHist>>

\* self.sock.connect(SOCKET_PATH), lines 289-292.  A socket that cancel has
\* already closed raises an OSError nothing catches: the thread ends.
WConnect ==
    /\ Alive /\ wpc = "connect"
    /\ IF sock = "closed"
       THEN /\ wpc' = "done"
            /\ UNCHANGED <<sock, idleq, connVars, connCount, backlog>>
       ELSE IF dpc # "dead"
       THEN /\ sock' = "connected"
            /\ conn' = "pending"
            /\ connCount' = connCount + 1
            /\ wpc' = "start_reader"
            /\ UNCHANGED <<idleq, c2d, c2dEnd, d2c, d2cAll, d2cEnd, backlog>>
       ELSE /\ idleq' = Append(idleq, Idle("show_error", <<"Daemon not running">>))
            /\ wpc' = "done"
            /\ UNCHANGED <<sock, connVars, connCount, backlog>>
    /\ UNCHANGED <<uipc, quitTimer, label, recording, cancelled,
                   timer_id, stop_event, streamRef, final_text, bt_card,
                   bt_original_profile, wp_autoswitch_disabled, hfp, chunk,
                   readerVars, captureVars, btVars, outVars, clientHist, dpc,
                   audio_buf, byte_buf, text, logRows, inProgress, daemonHist>>

\* threading.Thread(target=self.read_daemon_messages).start(), line 295.
WStartReader ==
    /\ Alive /\ wpc = "start_reader"
    /\ rpc' = "recv"
    /\ wpc' = "post_start"
    /\ UNCHANGED <<uiVars, hfp, chunk, buf, captureVars, btVars, outVars,
                   clientHist, connVars, daemonVars, daemonHist>>

\* GLib.idle_add(self.start_recording), line 298; the writer loop follows.
WPostStart ==
    /\ Alive /\ wpc = "post_start"
    /\ idleq' = Append(idleq, Idle("start_recording", << >>))
    /\ wpc' = "w_check"
    /\ UNCHANGED <<uipc, quitTimer, label, recording, cancelled,
                   timer_id, stop_event, streamRef, sock, final_text, bt_card,
                   bt_original_profile, wp_autoswitch_disabled, hfp, chunk,
                   readerVars, captureVars, btVars, outVars, clientHist, connVars,
                   daemonVars, daemonHist>>

\* ------------------------------------------------- audio_callback, lines 37-46

\* The capture context enqueues one frame while the stream is running.
AudioCallback ==
    /\ Alive /\ streamState = "active"
    /\ captured < MaxFrames
    /\ captured' = captured + 1
    /\ audio_queue' = Append(audio_queue, captured + 1)
    /\ UNCHANGED <<uiVars, workerVars, readerVars, streamState, capture_rate, indata,
                   mono, btVars, outVars,
                   clientHist, connVars, daemonVars, daemonHist>>

\* Native rates a device may report as its default_samplerate (line 269).
CaptureRates == {8000, 11025, 16000, 22050, 32000, 44100, 48000}

\* Lines 39-45 on one block: ratio = WHISPER_RATE / capture_rate,
\* n_out = int(len(mono) * ratio), and output sample i (from 0) is the input
\* sample at min(int(i / ratio), len(mono) - 1).  At the equal rate the block is
\* passed on as it is.
Resample(samples, rate) ==
    IF rate = WHISPER_RATE THEN samples
    ELSE LET n_out == (Len(samples) * WHISPER_RATE) \div rate
             index(i) == LET at == (i * rate) \div WHISPER_RATE
                         IN  IF at < Len(samples) - 1 THEN at ELSE Len(samples) - 1
         IN  [i \in 1..n_out |-> samples[index(i - 1) + 1]]

\* audio_callback on a block of any length, sample by sample: the samples of the
\* block are named by their position in it.
AudioCallbackBlock ==
    /\ Alive
    /\ \E len \in 0..MaxBlock :
        /\ indata' = [i \in 1..len |-> i]
        /\ mono' = Resample(indata', capture_rate)
    /\ UNCHANGED <<uiVars, workerVars, readerVars, streamState, audio_queue, captured,
                   capture_rate, btVars, outVars, clientHist, connVars, daemonVars,
                   daemonHist>>

\* ---------------------------------------- stream_audio_to_daemon, lines 303-327

FrameBytes == FrameSamples * SampleBytes

\* sendall succeeds while the socket is open on both sides; otherwise it raises
\* BrokenPipeError / ConnectionResetError / OSError.
CanSend == sock = "connected" /\ conn \in {"pending", "accepted"}

\* while not self.stop_event.is_set(), line 305.
WCheckStop ==
    /\ Alive /\ wpc = "w_check"
    /\ wpc' = IF stop_event THEN "w_drain" ELSE "w_get"
    /\ UNCHANGED <<uiVars, hfp, chunk, readerVars, captureVars, btVars, outVars,
                   clientHist, connVars, daemonVars, daemonHist>>

\* audio_queue.get(timeout=0.1), lines 306-309: a frame, or queue.Empty and the
\* loop condition is tested again.
WGet ==
    /\ Alive /\ wpc = "w_get"
    /\ IF audio_queue # << >>
       THEN /\ chunk' = Head(audio_queue)
            /\ audio_queue' = Tail(audio_queue)
            /\ wpc' = "w_send"
       ELSE /\ stop_event   \* until then the next get finds the queue as it is
            /\ wpc' = "w_check"
            /\ UNCHANGED <<chunk, audio_queue>>
    /\ UNCHANGED <<uiVars, hfp, readerVars, streamState, captured, capture_rate, indata, mono, btVars, outVars,
                   clientHist, connVars, daemonVars, daemonHist>>

\* self.sock.sendall(chunk.tobytes()), lines 310-313: on an error the writer returns.
WSend ==
    /\ Alive /\ wpc = "w_send"
    /\ IF CanSend
       THEN /\ c2d' = c2d + FrameBytes
            /\ sentFrames' = sentFrames \cup {chunk}
            /\ wpc' = "w_check"
            /\ UNCHANGED sendFailed
       ELSE /\ sendFailed' = TRUE
            /\ wpc' = "done"
            /\ UNCHANGED <<recStarted, c2d, sentFrames>>
    /\ chunk' = 0
    /\ UNCHANGED <<recStarted, uiVars, hfp, readerVars, captureVars, btVars, outVars,
                   restoreCalls, btCmds, cancelReq, recAtCancel, queueAtCancel,
                   shutCount, cancelAtShut, captureStarted, linesAfterCancel, rlines,
                   errShown, exitVia, conn, c2dEnd, d2c, d2cAll, d2cEnd, daemonVars,
                   daemonHist>>

\* The drain loop, lines 316-321: while not audio_queue.empty(): get_nowait().
WDrainGet ==
    /\ Alive /\ wpc = "w_drain"
    /\ IF audio_queue # << >>
       THEN /\ chunk' = Head(audio_queue)
            /\ audio_queue' = Tail(audio_queue)
            /\ wpc' = "w_drain_send"
       ELSE /\ wpc' = "w_shutdown"
            /\ UNCHANGED <<chunk, audio_queue>>
    /\ UNCHANGED <<uiVars, hfp, readerVars, streamState, captured, capture_rate, indata, mono, btVars, outVars,
                   clientHist, connVars, daemonVars, daemonHist>>

\* sendall inside the drain loop: an error breaks out of the loop.
WDrainSend ==
    /\ Alive /\ wpc = "w_drain_send"
    /\ IF CanSend
       THEN /\ c2d' = c2d + FrameBytes
            /\ sentFrames' = sentFrames \cup {chunk}
            /\ wpc' = "w_drain"
            /\ UNCHANGED sendFailed
       ELSE /\ sendFailed' = TRUE
            /\ wpc' = "w_shutdown"
            /\ UNCHANGED <<recStarted, c2d, sentFrames>>
    /\ chunk' = 0
    /\ UNCHANGED <<recStarted, uiVars, hfp, readerVars, captureVars, btVars, outVars,
                   restoreCalls, btCmds, cancelReq, recAtCancel, queueAtCancel,
                   shutCount, cancelAtShut, captureStarted, linesAfterCancel, rlines,
                   errShown, exitVia, conn, c2dEnd, d2c, d2cAll, d2cEnd, daemonVars,
                   daemonHist>>

\* The half-close taken without waiting for the drain loop to empty the queue.
WShutdownSkipDrain ==
    /\ Alive /\ wpc \in {"w_drain", "w_shutdown"}
    /\ IF sock = "connected"
       THEN /\ c2dEnd' = "eof"
            /\ shutCount' = shutCount + 1
            /\ cancelAtShut' = cancelReq
       ELSE UNCHANGED <<c2dEnd, shutCount, cancelAtShut>>
    /\ wpc' = "done"
    /\ UNCHANGED <<recStarted, uiVars, hfp, chunk, readerVars, captureVars, btVars, outVars,
                   restoreCalls, btCmds, cancelReq, recAtCancel, queueAtCancel,
                   sentFrames, sendFailed, captureStarted, linesAfterCancel, rlines,
                   errShown, exitVia, conn, c2d, d2c, d2cAll, d2cEnd, daemonVars, daemonHist>>

\* The writer ending after the drain loop without the half-close of line 325.
WReturnNoShutdown ==
    /\ Alive /\ wpc = "w_shutdown"
    /\ wpc' = "done"
    /\ UNCHANGED <<uiVars, hfp, chunk, readerVars, captureVars, btVars, outVars,
                   clientHist, connVars, daemonVars, daemonHist>>

\* self.sock.shutdown(socket.SHUT_WR), lines 324-327: the half-close; on a socket
\* that has been closed it raises OSError, which is passed over.
WShutdown ==
    /\ Alive /\ wpc = "w_shutdown"
    /\ IF sock = "connected"
       THEN /\ c2dEnd' = "eof"
            /\ shutCount' = shutCount + 1
            /\ cancelAtShut' = cancelReq
       ELSE UNCHANGED <<c2dEnd, shutCount, cancelAtShut>>
    /\ wpc' = "done"
    /\ UNCHANGED <<recStarted, uiVars, hfp, chunk, readerVars, captureVars, btVars, outVars,
                   restoreCalls, btCmds, cancelReq, recAtCancel, queueAtCancel,
                   sentFrames, sendFailed, captureStarted, linesAfterCancel, rlines,
                   errShown, exitVia, conn, c2d, d2c, d2cAll, d2cEnd, daemonVars, daemonHist>>

\* ----------------------------------- read_daemon_messages / handle_daemon_line

IndexOfNL(b) == IF \E i \in 1..Len(b) : b[i] = NL
                THEN CHOOSE i \in 1..Len(b) : b[i] = NL /\ \A j \in 1..(i - 1) : b[j] # NL
                ELSE 0

\* while b"\n" in buf: line, buf = buf.split(b"\n", 1) -- the complete lines of b.
RECURSIVE CompleteLines(_)
CompleteLines(b) ==
    LET i == IndexOfNL(b)
    IN  IF i = 0 THEN << >>
        ELSE <<SubSeq(b, 1, i - 1)>> \o CompleteLines(SubSeq(b, i + 1, Len(b)))

\* The reader starting every read with an empty buf.
RemainderDropped(b) == << >>

\* What is left in buf after the complete lines were taken.
RECURSIVE Remainder(_)
Remainder(b) ==
    LET i == IndexOfNL(b)
    IN  IF i = 0 THEN b ELSE Remainder(SubSeq(b, i + 1, Len(b)))

StartsWith(line, c) == Len(line) >= 2 /\ line[1] = c /\ line[2] = " "
\* line[1:] in place of line[2:]: the separator stays in the payload.
PayloadFromSeparator(line) == SubSeq(line, 2, Len(line))

\* line[2:]
Payload(line) == SubSeq(line, 3, Len(line))

\* float(line[2:]) succeeds on digits with at most one decimal point.
IsFloat(p) ==
    /\ \A i \in 1..Len(p) : IsDigit(p[i]) \/ p[i] = "."
    /\ Cardinality({i \in 1..Len(p) : p[i] = "."}) <= 1
    /\ \E i \in 1..Len(p) : IsDigit(p[i])

RECURSIVE DigitsVal(_)
DigitsVal(ds) == IF ds = << >> THEN 0
                 ELSE DigitsVal(SubSeq(ds, 1, Len(ds) - 1)) * 10 + DigitVal(ds[Len(ds)])

\* The value of a float literal in tenths, as f"{dur:.1f}" shows it.
ParseTenths(p) ==
    LET dot == IF \E i \in 1..Len(p) : p[i] = "."
               THEN CHOOSE i \in 1..Len(p) : p[i] = "." ELSE Len(p) + 1
        whole == DigitsVal(SubSeq(p, 1, dot - 1))
        frac == SubSeq(p, dot + 1, Len(p))
        first == IF Len(frac) >= 1 THEN DigitVal(frac[1]) ELSE 0
        up == IF Len(frac) >= 2 /\ DigitVal(frac[2]) >= 5 THEN 1 ELSE 0
    IN  whole * 10 + first + up

\* handle_daemon_line on final_text: an F line replaces it, any other line keeps it.
handle_final(ft, line) ==
    IF StartsWith(line, "F") THEN Payload(line) ELSE ft

\* handle_daemon_line on the main loop: an L line with a number posts the status
\* text, any other line posts nothing.
handle_posts(line) ==
    IF ~StartsWith(line, "F") /\ StartsWith(line, "L") /\ IsFloat(Payload(line))
    THEN <<Idle("set_text", FormatTenths(ParseTenths(Payload(line))))>>
    ELSE << >>

RECURSIVE FinalAfter(_, _)
FinalAfter(ft, lines) ==
    IF lines = << >> THEN ft
    ELSE FinalAfter(handle_final(ft, Head(lines)), Tail(lines))

RECURSIVE PostsOf(_)
PostsOf(lines) ==
    IF lines = << >> THEN << >> ELSE handle_posts(Head(lines)) \o PostsOf(Tail(lines))

\* One pass of the read loop with data, lines 334-340: recv returns any non-empty
\* prefix of what the daemon has written; every complete line is handled.
RRecv ==
    /\ Alive /\ rpc = "recv"
    /\ sock = "connected"
    /\ d2c # << >>
    /\ \E n \in 1..Len(d2c) :
        LET data == buf \o SubSeq(d2c, 1, n)
            lines == CompleteLines(data)
        IN  /\ d2c' = SubSeq(d2c, n + 1, Len(d2c))
            /\ buf' = Remainder(data)
            /\ final_text' = FinalAfter(final_text, lines)
            /\ idleq' = idleq \o PostsOf(lines)
            /\ rlines' = rlines \o lines
            /\ linesAfterCancel' =
                   IF cancelReq
                   THEN linesAfterCancel
                        + Cardinality({i \in 1..Len(lines) :
                              StartsWith(lines[i], "F") \/ handle_posts(lines[i]) # << >>})
                   ELSE linesAfterCancel
    /\ UNCHANGED <<recStarted, uipc, quitTimer, label, recording, cancelled,
                   timer_id, stop_event, streamRef, sock, bt_card,
                   bt_original_profile, wp_autoswitch_disabled, workerVars, rpc,
                   captureVars, btVars, outVars, restoreCalls, btCmds, cancelReq,
                   recAtCancel, queueAtCancel, sentFrames, shutCount, cancelAtShut,
                   sendFailed, captureStarted, errShown, exitVia, conn, c2d, c2dEnd,
                   d2cEnd, d2cAll, daemonVars, daemonHist>>

\* recv returns b"" (the daemon closed), or raises (connection reset, or the
\* socket was closed by the main loop); the finally clause, lines 343-345, posts
\* finish with the text stored so far unless cancelled is set.
REnd ==
    /\ Alive /\ rpc = "recv"
    /\ \/ sock = "closed"
       \/ d2c = << >> /\ d2cEnd \in {"eof", "reset"}
    /\ rpc' = "done"
    /\ idleq' = IF cancelled THEN idleq ELSE Append(idleq, Idle("finish", final_text))
    /\ UNCHANGED <<uipc, quitTimer, label, recording, cancelled,
                   timer_id, stop_event, streamRef, sock, final_text, bt_card,
                   bt_original_profile, wp_autoswitch_disabled, workerVars, buf,
                   captureVars, btVars, outVars, clientHist, connVars, daemonVars,
                   daemonHist>>

\* ------------------------------------------------------------ GTK main loop

\* Restoration that re-enables the auto-switch agent whether or not this
\* session disabled it.
restore_reenable_always ==
    /\ restoreCalls' = restoreCalls + 1
    /\ cardProfile' = IF bt_card /\ bt_original_profile # "none"
                      THEN bt_original_profile ELSE cardProfile
    /\ autoswitch' = TRUE
    /\ wp_autoswitch_disabled' = FALSE
    /\ btCmds' = btCmds
                 \o (IF bt_card /\ bt_original_profile # "none" THEN <<"set_original">> ELSE << >>)
                 \o <<"autoswitch_on">>

\* _restore_bt_profile, lines 420-426.
restore_bt_profile ==
    /\ restoreCalls' = restoreCalls + 1
    /\ cardProfile' = IF bt_card /\ bt_original_profile # "none"
                      THEN bt_original_profile ELSE cardProfile
    /\ autoswitch' = IF wp_autoswitch_disabled THEN TRUE ELSE autoswitch
    /\ wp_autoswitch_disabled' = FALSE
    /\ btCmds' = btCmds
                 \o (IF bt_card /\ bt_original_profile # "none" THEN <<"set_original">> ELSE << >>)
                 \o (IF wp_autoswitch_disabled THEN <<"autoswitch_on">> ELSE << >>)

\* start_recording, lines 364-369.
StartRecording ==
    /\ uipc = "loop"
    /\ idleq # << >> /\ Head(idleq).cb = "start_recording"
    /\ idleq' = Tail(idleq)
    /\ recording' = TRUE
    /\ timer_id' = TRUE
    /\ label' = <<"Recording", << >>>>
    /\ recStarted' = TRUE
    /\ UNCHANGED <<uipc, quitTimer, cancelled, stop_event, streamRef,
                   sock, final_text, bt_card, bt_original_profile,
                   wp_autoswitch_disabled, workerVars, readerVars, captureVars,
                   btVars, outVars, restoreCalls, btCmds, cancelReq, recAtCancel,
                   queueAtCancel, sentFrames, shutCount, cancelAtShut, sendFailed,
                   captureStarted, linesAfterCancel, rlines, errShown, exitVia,
                   connVars, daemonVars, daemonHist>>

\* show_error, lines 359-362: the message, and Gtk.main_quit in 3000 ms.
ShowError ==
    /\ uipc = "loop"
    /\ idleq # << >> /\ Head(idleq).cb = "show_error"
    /\ idleq' = Tail(idleq)
    /\ label' = <<"Error", Head(idleq).arg>>
    /\ errShown' = Head(idleq).arg[1]
    /\ quitTimer' = TRUE
    /\ UNCHANGED <<recStarted, uipc, recording, cancelled, timer_id, stop_event,
                   streamRef, sock, final_text, bt_card, bt_original_profile,
                   wp_autoswitch_disabled, workerVars, readerVars, captureVars,
                   btVars, outVars, restoreCalls, btCmds, cancelReq, recAtCancel,
                   queueAtCancel, sentFrames, shutCount, cancelAtShut, sendFailed,
                   captureStarted, linesAfterCancel, rlines, exitVia, connVars,
                   daemonVars, daemonHist>>

\* The timeout of show_error fires: Gtk.main_quit.
ErrorTimeout ==
    /\ uipc = "loop"
    /\ quitTimer
    /\ quitTimer' = FALSE
    /\ uipc' = "quitting"
    /\ exitVia' = "error"
    /\ UNCHANGED <<recStarted, idleq, label, recording, cancelled, timer_id,
                   stop_event, streamRef, sock, final_text, bt_card,
                   bt_original_profile, wp_autoswitch_disabled, workerVars,
                   readerVars, captureVars, btVars, outVars, restoreCalls, btCmds,
                   cancelReq, recAtCancel, queueAtCancel, sentFrames, shutCount,
                   cancelAtShut, sendFailed, captureStarted, linesAfterCancel,
                   rlines, errShown, connVars, daemonVars, daemonHist>>

\* The idle callback timer_label.set_text posted for an L line, lines 354-355.
SetStatusText ==
    /\ uipc = "loop"
    /\ idleq # << >> /\ Head(idleq).cb = "set_text"
    /\ idleq' = Tail(idleq)
    /\ label' = <<"TranscribingDur", Head(idleq).arg>>
    /\ UNCHANGED <<uipc, quitTimer, recording, cancelled, timer_id,
                   stop_event, streamRef, sock, final_text, bt_card,
                   bt_original_profile, wp_autoswitch_disabled, workerVars,
                   readerVars, captureVars, btVars, outVars, clientHist, connVars,
                   daemonVars, daemonHist>>

\* Escape: stop_and_transcribe, lines 388-399 (nothing happens unless recording).
StopAndTranscribe ==
    /\ uipc = "loop"
    /\ recording
    /\ recording' = FALSE
    /\ label' = <<"Transcribing", << >>>>
    /\ streamState' = IF streamRef THEN "stopped" ELSE streamState
    /\ stop_event' = TRUE
    /\ UNCHANGED <<uipc, idleq, quitTimer, cancelled, timer_id,
                   streamRef, sock, final_text, bt_card, bt_original_profile,
                   wp_autoswitch_disabled, workerVars, readerVars, audio_queue,
                   captured, capture_rate, indata, mono, btVars, outVars, clientHist, connVars, daemonVars,
                   daemonHist>>

\* finish without the test of line 443: pyperclip.copy(text) whatever the text.
FinishCopyAlways ==
    /\ uipc = "loop"
    /\ idleq # << >> /\ Head(idleq).cb = "finish"
    /\ idleq' = Tail(idleq)
    /\ IF cancelled
       THEN UNCHANGED <<uipc, streamRef, streamState, sock, c2dEnd, restoreCalls,
                        cardProfile, autoswitch, wp_autoswitch_disabled, btCmds,
                        clipboard, pasted, exitVia>>
       ELSE /\ streamState' = IF streamRef THEN "closed" ELSE streamState
            /\ streamRef' = FALSE
            /\ sock' = IF sock # "none" THEN "closed" ELSE sock
            /\ c2dEnd' = IF sock = "connected" THEN "closed" ELSE c2dEnd
            /\ restore_bt_profile
            /\ clipboard' = Append(clipboard, Head(idleq).arg)
            /\ \E prev_window \in BOOLEAN :
                   pasted' = IF Head(idleq).arg # << >> /\ prev_window
                             THEN Append(pasted, Head(idleq).arg) ELSE pasted
            /\ uipc' = "quitting"
            /\ exitVia' = "finish"
    /\ UNCHANGED <<recStarted, quitTimer, label, recording, cancelled, timer_id,
                   stop_event, final_text, bt_card, bt_original_profile,
                   workerVars, readerVars, audio_queue, captured, capture_rate, indata, mono, cardPresent,
                   hfpAvail, cancelReq, recAtCancel, queueAtCancel, sentFrames,
                   shutCount, cancelAtShut, sendFailed, captureStarted,
                   linesAfterCancel, rlines, errShown, conn, c2d, d2c, d2cAll, d2cEnd,
                   daemonVars, daemonHist>>

\* finish, lines 428-451, run as an idle callback with the text it was posted with.
\* prev_window is what main got from get_active_window_id: a window id or None.
Finish ==
    /\ uipc = "loop"
    /\ idleq # << >> /\ Head(idleq).cb = "finish"
    /\ idleq' = Tail(idleq)
    /\ IF cancelled
       THEN UNCHANGED <<uipc, streamRef, streamState, sock, c2dEnd, restoreCalls,
                        cardProfile, autoswitch, wp_autoswitch_disabled, btCmds,
                        clipboard, pasted, exitVia>>
       ELSE /\ streamState' = IF streamRef THEN "closed" ELSE streamState
            /\ streamRef' = FALSE
            /\ sock' = IF sock # "none" THEN "closed" ELSE sock
            /\ c2dEnd' = IF sock = "connected" THEN "closed" ELSE c2dEnd
            /\ restore_bt_profile
            /\ clipboard' = IF Head(idleq).arg # << >>
                            THEN Append(clipboard, Head(idleq).arg) ELSE clipboard
            /\ \E prev_window \in BOOLEAN :
                   pasted' = IF Head(idleq).arg # << >> /\ prev_window
                             THEN Append(pasted, Head(idleq).arg) ELSE pasted
            /\ uipc' = "quitting"
            /\ exitVia' = "finish"
    /\ UNCHANGED <<recStarted, quitTimer, label, recording, cancelled, timer_id,
                   stop_event, final_text, bt_card, bt_original_profile,
                   workerVars, readerVars, audio_queue, captured, capture_rate, indata, mono, cardPresent,
                   hfpAvail, cancelReq, recAtCancel, queueAtCancel, sentFrames,
                   shutCount, cancelAtShut, sendFailed, captureStarted,
                   linesAfterCancel, rlines, errShown, conn, c2d, d2c, d2cAll, d2cEnd,
                   daemonVars, daemonHist>>

\* Ctrl+C: cancel, lines 401-418.  The handler runs on the main loop while the
\* worker, the reader and the capture callback go on; it is taken in the steps
\* between which it blocks (stream.close, sock.close and the restore commands).
cancel_begin ==
    /\ uipc = "loop"
    /\ cancelled' = TRUE
    /\ recording' = FALSE
    /\ timer_id' = FALSE
    /\ stop_event' = TRUE
    /\ uipc' = "c_stream"
    /\ cancelReq' = TRUE
    /\ recAtCancel' = recording
    /\ queueAtCancel' = {audio_queue[i] : i \in 1..Len(audio_queue)}
    /\ UNCHANGED <<recStarted, idleq, quitTimer, label, streamRef, sock,
                   final_text, bt_card, bt_original_profile,
                   wp_autoswitch_disabled, workerVars, readerVars, captureVars,
                   btVars, outVars, restoreCalls, btCmds, sentFrames, shutCount,
                   cancelAtShut, sendFailed, captureStarted, linesAfterCancel,
                   rlines, errShown, exitVia, connVars, daemonVars, daemonHist>>

cancel_close_stream ==
    /\ uipc = "c_stream"
    /\ streamState' = IF streamRef THEN "closed" ELSE streamState
    /\ streamRef' = FALSE
    /\ uipc' = "c_sock"
    /\ UNCHANGED <<idleq, quitTimer, label, recording, cancelled,
                   timer_id, stop_event, sock, final_text, bt_card,
                   bt_original_profile, wp_autoswitch_disabled, workerVars,
                   readerVars, audio_queue, captured, capture_rate, indata, mono, btVars, outVars, clientHist,
                   connVars, daemonVars, daemonHist>>

cancel_close_sock ==
    /\ uipc = "c_sock"
    /\ sock' = IF sock # "none" THEN "closed" ELSE sock
    /\ c2dEnd' = IF sock = "connected" THEN "closed" ELSE c2dEnd
    /\ uipc' = "c_restore"
    /\ UNCHANGED <<idleq, quitTimer, label, recording, cancelled,
                   timer_id, stop_event, streamRef, final_text, bt_card,
                   bt_original_profile, wp_autoswitch_disabled, workerVars,
                   readerVars, captureVars, btVars, outVars, clientHist, conn, c2d,
                   d2c, d2cAll, d2cEnd, daemonVars, daemonHist>>

cancel_restore_quit ==
    /\ uipc = "c_restore"
    /\ restore_bt_profile
    /\ uipc' = "quitting"
    /\ exitVia' = "cancel"
    /\ UNCHANGED <<recStarted, idleq, quitTimer, label, recording, cancelled,
                   timer_id, stop_event, streamRef, sock, final_text, bt_card,
                   bt_original_profile, workerVars, readerVars, captureVars,
                   cardPresent, hfpAvail, outVars, cancelReq, recAtCancel,
                   queueAtCancel, sentFrames, shutCount, cancelAtShut, sendFailed,
                   captureStarted, linesAfterCancel, rlines, errShown, connVars,
                   daemonVars, daemonHist>>

\* cancel as a plain teardown: the cancelled flag is not set and the main loop is
\* not quit, leaving the exit to the finish that the reader posts.
cancel_begin_no_flag ==
    /\ uipc = "loop"
    /\ ~cancelReq
    /\ recording' = FALSE
    /\ timer_id' = FALSE
    /\ stop_event' = TRUE
    /\ uipc' = "c_stream"
    /\ cancelReq' = TRUE
    /\ recAtCancel' = recording
    /\ queueAtCancel' = {audio_queue[i] : i \in 1..Len(audio_queue)}
    /\ UNCHANGED <<recStarted, idleq, quitTimer, label, cancelled, streamRef, sock,
                   final_text, bt_card, bt_original_profile,
                   wp_autoswitch_disabled, workerVars, readerVars, captureVars,
                   btVars, outVars, restoreCalls, btCmds, sentFrames, shutCount,
                   cancelAtShut, sendFailed, captureStarted, linesAfterCancel,
                   rlines, errShown, exitVia, connVars, daemonVars, daemonHist>>

cancel_restore_no_quit ==
    /\ uipc = "c_restore"
    /\ restore_bt_profile
    /\ uipc' = "loop"
    /\ UNCHANGED <<recStarted, idleq, quitTimer, label, recording, cancelled,
                   timer_id, stop_event, streamRef, sock, final_text, bt_card,
                   bt_original_profile, workerVars, readerVars, captureVars,
                   cardPresent, hfpAvail, outVars, cancelReq, recAtCancel,
                   queueAtCancel, sentFrames, shutCount, cancelAtShut, sendFailed,
                   captureStarted, linesAfterCancel, rlines, errShown, exitVia,
                   connVars, daemonVars, daemonHist>>

cancel_teardown_only ==
    \/ cancel_begin_no_flag
    \/ cancel_close_stream
    \/ cancel_close_sock
    \/ cancel_restore_no_quit

cancel ==
    \/ cancel_begin
    \/ cancel_close_stream
    \/ cancel_close_sock
    \/ cancel_restore_quit

\* Gtk.main() returns and the process ends: the threads stop with it and the
\* kernel closes what is still open.
ProcessExit ==
    /\ uipc = "quitting"
    /\ uipc' = "exited"
    /\ sock' = IF sock \in {"created", "connected"} THEN "closed" ELSE sock
    /\ c2dEnd' = IF sock = "connected" THEN "closed" ELSE c2dEnd
    /\ streamState' = IF streamState \in {"active", "stopped"} THEN "closed"
                      ELSE streamState
    /\ UNCHANGED <<idleq, quitTimer, label, recording, cancelled,
                   timer_id, stop_event, streamRef, final_text, bt_card,
                   bt_original_profile, wp_autoswitch_disabled, workerVars,
                   readerVars, audio_queue, captured, capture_rate, indata, mono, btVars, outVars, clientHist,
                   conn, c2d, d2c, d2cAll, d2cEnd, daemonVars, daemonHist>>

\* ========================================================== specifications

InitDaemon ==
    /\ audio_buf = << >> /\ byte_buf = << >> /\ text = << >> /\ logRows = 0
    /\ connCount = 0 /\ backlog = 0 /\ inProgress = 0
    /\ eofSeen = FALSE /\ engineCalls = 0 /\ bytesRecvd = 0 /\ sentMsgs = << >>
    /\ raises = 0

\* No connection has been made yet.
InitConn ==
    /\ conn = "none" /\ c2d = 0 /\ c2dEnd = "open" /\ d2c = << >> /\ d2cEnd = "open"
    /\ d2cAll = << >>

InitClientFields ==
    /\ idleq = << >> /\ quitTimer = FALSE /\ label = <<"Starting", << >>>>
    /\ recording = FALSE /\ cancelled = FALSE /\ timer_id = FALSE
    /\ stop_event = FALSE /\ streamRef = FALSE
    /\ final_text = << >>
    /\ bt_card = FALSE /\ bt_original_profile = "none"
    /\ wp_autoswitch_disabled = FALSE
    /\ hfp = "none" /\ chunk = 0
    /\ buf = << >>
    /\ streamState = "none" /\ audio_queue = << >> /\ captured = 0
    /\ indata = << >> /\ mono = << >>
    /\ autoswitch = TRUE
    /\ clipboard = << >> /\ pasted = << >>
    /\ restoreCalls = 0 /\ btCmds = << >> /\ cancelReq = FALSE
    /\ recAtCancel = FALSE /\ queueAtCancel = {} /\ sentFrames = {}
    /\ shutCount = 0 /\ cancelAtShut = FALSE /\ sendFailed = FALSE
    /\ captureStarted = FALSE /\ linesAfterCancel = 0 /\ rlines = << >>
    /\ errShown = "none" /\ exitVia = "none" /\ recStarted = FALSE

\* The registry holds no Bluetooth card, or one on either profile, with or
\* without a headset profile to offer.
BtWorlds ==
    {<<FALSE, "none", FALSE>>}
    \cup {<<TRUE, p, h>> : p \in {"a2dp", "hfp"}, h \in BOOLEAN}

\* A session: the window is up, worker_init is about to run; the daemon is
\* listening, or its socket is absent.
Init ==
    /\ InitDaemon
    /\ InitConn
    /\ InitClientFields
    /\ uipc = "loop"
    /\ wpc = "get_bt_card"
    /\ rpc = "none" /\ sock = "none"
    /\ capture_rate = WHISPER_RATE
    /\ \E w \in BtWorlds :
        /\ cardPresent = w[1] /\ cardProfile = w[2] /\ hfpAvail = w[3]
    /\ dpc \in {"accept", "dead"}

ClientNext ==
    \/ WGetBtCard
    \/ WFindHfp
    \/ WSetWpAutoswitch
    \/ WMarkDisabled
    \/ WSwitchProfile
    \/ WFindDevice
    \/ WOpenStream
    \/ WSocket
    \/ WConnect
    \/ WStartReader
    \/ WPostStart
    \/ AudioCallback
    \/ WCheckStop
    \/ WGet
    \/ WSend
    \/ WDrainGet
    \/ WDrainSend
    \/ WShutdown
    \/ RRecv
    \/ REnd
    \/ StartRecording
    \/ ShowError
    \/ ErrorTimeout
    \/ SetStatusText
    \/ StopAndTranscribe
    \/ Finish
    \/ cancel
    \/ ProcessExit

Next == ClientNext \/ DaemonNext

Spec == Init /\ [][Next]_vars

\* The steps of each thread of the client, and of the daemon, that are taken
\* without anything from outside: the key presses (Escape, Ctrl+C), the blocks
\* the device delivers and the interrupt that ends the daemon are not among them.
WorkerRun ==
    \/ WGetBtCard
    \/ WFindHfp
    \/ WSetWpAutoswitch
    \/ WMarkDisabled
    \/ WSwitchProfile
    \/ WFindDevice
    \/ WOpenStream
    \/ WSocket
    \/ WConnect
    \/ WStartReader
    \/ WPostStart
    \/ WCheckStop
    \/ WGet
    \/ WSend
    \/ WDrainGet
    \/ WDrainSend
    \/ WShutdown

ReaderRun == RRecv \/ REnd

MainLoopRun ==
    \/ StartRecording
    \/ ShowError
    \/ ErrorTimeout
    \/ SetStatusText
    \/ Finish
    \/ cancel_close_stream
    \/ cancel_close_sock
    \/ cancel_restore_quit
    \/ ProcessExit

DaemonRun ==
    \/ DAccept
    \/ DRecvData
    \/ DRecvEOF
    \/ DSendProgress
    \/ DTranscribe
    \/ DTranscribeRaise
    \/ DSendResult
    \/ DLogTiming
    \/ DClose

\* A session with a Bluetooth headset on its playback profile, the daemon
\* listening.
InitLive ==
    /\ InitDaemon
    /\ InitConn
    /\ InitClientFields
    /\ uipc = "loop"
    /\ wpc = "get_bt_card"
    /\ rpc = "none" /\ sock = "none"
    /\ capture_rate = WHISPER_RATE
    /\ cardPresent = TRUE /\ cardProfile = "a2dp" /\ hfpAvail = TRUE
    /\ dpc = "accept"

\* That session with every thread that can take a step eventually taking one:
\* the threads are scheduled by the operating system, the main loop dispatches
\* its callbacks, and the daemon's engine returns or raises.
LiveSpec ==
    /\ InitLive
    /\ [][Next]_vars
    /\ WF_vars(WorkerRun)
    /\ WF_vars(ReaderRun)
    /\ WF_vars(MainLoopRun)
    /\ WF_vars(DaemonRun)

\* The daemon alone: no client session, peers connect one after the other.
InitD ==
    /\ InitDaemon
    /\ InitConn
    /\ InitClientFields
    /\ uipc = "exited"
    /\ wpc = "done"
    /\ rpc = "none" /\ sock = "none"
    /\ capture_rate = WHISPER_RATE
    /\ cardPresent = FALSE /\ cardProfile = "none" /\ hfpAvail = FALSE
    /\ dpc = "accept"

NextD ==
    \/ DaemonNext
    \/ DRecvError
    \/ PeerWait
    \/ PeerConnect
    \/ PeerSend
    \/ PeerShutdown
    \/ PeerReset

DaemonSpec == InitD /\ [][NextD]_vars

\* The lines a daemon writes to the control stream: F <text> and L <duration>.
ProtocolLines ==
    {<<"F", " ">> \o t : t \in Texts \ {<< >>}}
    \cup {<<"L", " ">> \o FormatTenths(k) : k \in 0..MaxTenths}

RECURSIVE StreamsOf(_)
StreamsOf(n) ==
    IF n = 0 THEN {<< >>}
    ELSE LET shorter == StreamsOf(n - 1)
         IN  shorter \cup {s \o l \o <<NL>> : s \in shorter, l \in ProtocolLines}

\* The reader alone: the client is connected and stopped, its reader is running
\* and the daemon side has written a stream of lines and closed.
InitDecode ==
    /\ InitDaemon
    /\ InitClientFields
    /\ uipc = "loop"
    /\ wpc = "done"
    /\ rpc = "recv" /\ sock = "connected"
    /\ capture_rate = WHISPER_RATE
    /\ cardPresent = FALSE /\ cardProfile = "none" /\ hfpAvail = FALSE
    /\ dpc = "accept"
    /\ conn = "closed" /\ c2d = 0 /\ c2dEnd = "eof" /\ d2cEnd = "eof"
    /\ d2c \in StreamsOf(MaxLines)
    /\ d2cAll = d2c

NextDecode ==
    \/ RRecv
    \/ REnd
    \/ SetStatusText
    \/ Finish
    \/ ProcessExit

DecodeSpec == InitDecode /\ [][NextDecode]_vars

\* The capture callback alone, at any device rate.
InitR ==
    /\ InitDaemon
    /\ InitConn
    /\ InitClientFields
    /\ uipc = "loop"
    /\ wpc = "done"
    /\ rpc = "none" /\ sock = "none"
    /\ capture_rate \in CaptureRates
    /\ cardPresent = FALSE /\ cardProfile = "none" /\ hfpAvail = FALSE
    /\ dpc = "dead"

NextR == AudioCallbackBlock

ResampleSpec == InitR /\ [][NextR]_vars

\* ================================================================== claims

HasF(lines) == \E i \in 1..Len(lines) : StartsWith(lines[i], "F")
Sent(msg_type) == \E i \in 1..Len(sentMsgs) : sentMsgs[i] = msg_type
AllCapturedSent == (1..captured) \subseteq sentFrames

\* C1 (as claimed): when the client has exited, whichever way the session ended,
\* _restore_bt_profile has been invoked exactly once.
C1_RestoreOncePerSession == uipc = "exited" => restoreCalls = 1

\* C2: once cancel has been requested, nothing has been or is ever copied to the
\* clipboard or pasted, whatever the reader had received or posted before.
C2_NoPasteOnceCancelled == cancelReq => clipboard = << >> /\ pasted = << >>

\* A cancelled session that has exited with a finish call carrying a result
\* still posted to the main loop.
C2_Witness ==
    /\ cancelReq /\ uipc = "exited"
    /\ \E i \in 1..Len(idleq) : idleq[i].cb = "finish" /\ idleq[i].arg # << >>

C4_EngineOnlyAfterEOF == engineCalls > 0 => eofSeen

\* C5: on a connection on which no byte was received, the engine is not invoked
\* and no L or F message is sent.
C5_NoAudioNoEngine == bytesRecvd = 0 => (engineCalls = 0 /\ sentMsgs = << >>)

\* A connection closed again after end-of-input arrived with no byte before it.
C5_Witness == bytesRecvd = 0 /\ eofSeen /\ conn = "closed" /\ dpc = "accept"

\* C6 (as claimed): when the daemon-unreachable error is shown, audio capture has
\* not been started in the session.
C6_NoCaptureWhenDaemonUnreachable ==
    errShown = "Daemon not running" => ~captureStarted

\* C7 (as claimed): after cancel is requested during recording, no frame that was
\* still in the queue at that moment is written to the connection.
C7_QueuedFramesDiscardedOnCancel ==
    (cancelReq /\ recAtCancel) => sentFrames \cap queueAtCancel = {}

\* C8 (as claimed), for a session in which recording started: no L or F line
\* handled after cancel was requested changes the stored final text or posts a
\* status update.
C8_NoLineHandledAfterCancel == recStarted => linesAfterCancel = 0

C10_NoResultNoPaste ==
    ~HasF(rlines) => (final_text = << >> /\ clipboard = << >> /\ pasted = << >>)

\* A session that ended through finish after the connection ended with an L line
\* but no F line received.
C10_Witness ==
    /\ exitVia = "finish" /\ uipc = "exited" /\ ~HasF(rlines)
    /\ rlines # << >> /\ d2cEnd \in {"eof", "reset"}

\* The types of the complete lines of a control stream, in order.
LineTypes(stream) ==
    LET ls == CompleteLines(stream) IN [i \in 1..Len(ls) |-> ls[i][1]]

\* Zero or more L, then at most one F.
ProgressThenResult(types) ==
    /\ \A i \in 1..Len(types) : types[i] \in {"L", "F"}
    /\ Cardinality({i \in 1..Len(types) : types[i] = "F"}) <= 1
    /\ \A i, j \in 1..Len(types) : (i < j /\ types[i] = "F") => types[j] # "L"

\* C11: on every connection the control messages the daemon sends, and the lines
\* it writes to the control stream, are zero or more L messages followed by at
\* most one F message: no L after an F, never more than one F.
C11_ProgressThenOneResult ==
    /\ ProgressThenResult(sentMsgs)
    /\ ProgressThenResult(LineTypes(d2cAll))

\* A connection handled to its end on which both messages were written.
C11_Witness ==
    /\ sentMsgs = <<"L", "F">> /\ LineTypes(d2cAll) = <<"L", "F">>
    /\ dpc = "accept" /\ conn = "closed"

\* C12 (as claimed): whenever the daemon is back at accept with no connection
\* pending, the log holds exactly one row for every connection it has handled.
C12_OneRowPerConnection ==
    (dpc = "accept" /\ conn \in {"none", "closed"}) => logRows = connCount - backlog

\* C13: the step in which the engine raises leaves the daemon running, at the
\* close of that connection; the step after the close returns to accept with the
\* connection closed; and a connection pending at accept after a failure is
\* accepted into the read loop like any other.
C13_EngineFailureNotFatal ==
    [][/\ (raises' # raises) => (dpc' = "close" /\ conn' = conn)
       /\ (dpc = "close" /\ dpc' # "close" /\ dpc' # "dead")
              => (dpc' = "accept" /\ conn' = "closed")
       /\ (raises > 0 /\ conn = "pending" /\ conn' = "accepted") => dpc' = "recv"]_vars

\* After a connection on which the engine raised, a later connection was handled
\* to its end: transcribed, its result sent, its row logged.
C13_Witness ==
    /\ raises >= 1 /\ Sent("F") /\ logRows >= 1
    /\ dpc = "accept" /\ conn = "closed"

\* C14: at most one connection is accepted and not yet closed, and the daemon is
\* at accept only when none is: a connection is accepted only after the previous
\* one was handled and closed, so the engine never runs for two at once.
C14_SerialHandling ==
    /\ inProgress <= 1
    /\ dpc = "accept" => inProgress = 0
    /\ dpc \in {"recv", "check", "transcribe", "result", "log", "close"}
           => (inProgress = 1 /\ conn = "accepted")

\* A second peer has connected and waits in the listen queue while the engine
\* runs for the first.
C14_Witness == backlog >= 1 /\ dpc = "transcribe" /\ inProgress = 1

\* C15: whatever the split of the control stream into reads, the lines handed to
\* handle_daemon_line so far, followed by the lines still to come from buf and
\* the unread part, are the lines of the whole stream in the order written; once
\* the reader has ended, the lines handled are exactly the lines of the stream.
C15_DecodingIndependentOfReads ==
    /\ rlines \o CompleteLines(buf \o d2c) = CompleteLines(d2cAll)
    /\ rpc = "done" => rlines = CompleteLines(d2cAll)

\* A read ended inside a line: a line has been handled, part of the next one is
\* kept in buf and the rest of the stream is still unread.
C15_Witness ==
    /\ rpc = "recv" /\ rlines # << >> /\ buf # << >> /\ d2c # << >>
    /\ Len(CompleteLines(d2cAll)) = MaxLines

\* Division rounded to the nearest integer, halves to the even one.
RoundDiv(num, den) ==
    LET q == num \div den
        r == num % den
    IN  IF 2 * r > den \/ (2 * r = den /\ q % 2 = 1) THEN q + 1 ELSE q

\* C18 (as claimed): at a native rate other than the target rate the block
\* enqueued has round(L * target / native) samples for a block of L samples, and
\* at the target rate it is the block unchanged.
C18_ResampledLength ==
    IF capture_rate = WHISPER_RATE THEN mono = indata
    ELSE Len(mono) = RoundDiv(Len(indata) * WHISPER_RATE, capture_rate)

Issued(cmd) == \E i \in 1..Len(btCmds) : btCmds[i] = cmd

\* C16: in a session that finds no Bluetooth card, no profile-switch command and
\* no auto-switch-agent command is ever issued, restoration included, and the
\* agent stays enabled; this on whichever path the session ends.
C16_NoCardNoCommands ==
    ~cardPresent => (btCmds = << >> /\ autoswitch /\ ~wp_autoswitch_disabled)

\* A session without a card that ended through cancel, restoration having run.
C16_Witness ==
    /\ ~cardPresent /\ ~bt_card /\ wpc # "get_bt_card"
    /\ restoreCalls = 1 /\ exitVia = "cancel" /\ uipc = "exited"

\* C17 (as claimed): the auto-switch agent is disabled only when a hands-free
\* profile was found that differs from the card's profile at detection; on a
\* card already on that profile the agent is not disabled and no switch is
\* requested.
C17_AgentDisabledOnlyForSwitch ==
    /\ Issued("autoswitch_off") => (hfp # "none" /\ hfp # bt_original_profile)
    /\ Issued("set_hfp") => (hfp # "none" /\ hfp # bt_original_profile)

C20_NoNegotiationAfterRestore ==
    [][restoreCalls >= 1 =>
          ~(/\ Len(btCmds') > Len(btCmds)
            /\ btCmds'[Len(btCmds')] \in {"autoswitch_off", "set_hfp"})]_vars

\* Escape was pressed during recording: stop_and_transcribe has run.
StopTriggered == label[1] = "Transcribing"

\* What the session comes to after stop: the writer has half-closed (or the user
\* cancelled, or the daemon was interrupted, before it could), the connection
\* has been closed by the daemon, and the client has exited through finish or
\* cancel.
HalfClosedOrGivenUp == shutCount = 1 \/ cancelReq \/ dpc = "dead"
ExitedAfterStop == uipc = "exited" /\ exitVia \in {"finish", "cancel"}

\* C21: with every thread and the daemon scheduled fairly, once stop was
\* triggered in Recording the writer eventually half-closes (unless the user
\* cancels or the daemon is interrupted first), the connection is eventually
\* closed by the daemon, and the client eventually exits, through finish or,
\* when the user cancels first, through cancel; each of the three, once so, stays
\* so, and the session does not stay in Finishing.
C21_FinishingEnds ==
    /\ StopTriggered ~> (HalfClosedOrGivenUp /\ conn = "closed" /\ ExitedAfterStop)
    /\ [][/\ HalfClosedOrGivenUp => HalfClosedOrGivenUp'
          /\ (conn = "closed") => (conn' = "closed")
          /\ ExitedAfterStop => ExitedAfterStop']_vars

\* A stopped session that half-closed, was answered and closed by the running
\* daemon, and exited through finish.
C21_Witness ==
    /\ label[1] \in {"Transcribing", "TranscribingDur"}
    /\ shutCount = 1 /\ conn = "closed" /\ dpc = "accept" /\ logRows = 1
    /\ ~cancelReq /\ exitVia = "finish" /\ uipc = "exited"
====
